---- MODULE Spec2Model ----
(***************************************************************************)
(* Model of gamepad/gamepad.py: the Gamepad class, its background worker   *)
(* (_thread_worker), connection handling, capability negotiation, record   *)
(* decoding and handler dispatch, together with the /dev/input environment *)
(* the worker talks to.                                                     *)
(***************************************************************************)
EXTENDS Integers, Sequences, FiniteSets, TLC

\* ------------------------------------------------------------------ bounds
MaxPlugs == 2       \* devices plugged in, counting those present at construction
MaxHandlers == 2    \* calls of on() while the lifecycle is explored
MaxInputHandlers == 3   \* calls of on() while the decoder is explored
MaxAxisHandlers == 2    \* calls of on() while the axis values are explored

None == "None"

\* self._file before a handle is installed
NoFile == [path |-> None, prof |-> None]

\* no record was decoded by the latest step
NoRec == [value |-> 0, type |-> 0, number |-> 0, err |-> None, pressed |-> FALSE,
          read |-> FALSE]

\* arguments of a handler invocation: the int of a button record, the float of
\* an axis record (an exact quotient), or nothing for connect / disconnect
IntVal(v) == [kind |-> "int", num |-> v, den |-> 1]
NoArg == [kind |-> "none", num |-> 0, den |-> 1]

\* ---------------------------------------------------------- static tables
\* gamepad.py axis_names
axis_names ==
  (0 :> "x") @@ (1 :> "y") @@ (2 :> "z") @@ (3 :> "rx") @@ (4 :> "ry") @@
  (5 :> "rz") @@ (6 :> "throttle") @@ (7 :> "rudder") @@ (8 :> "wheel") @@
  (9 :> "gas") @@ (10 :> "brake") @@ (16 :> "hat0x") @@ (17 :> "hat0y") @@
  (18 :> "hat1x") @@ (19 :> "hat1y") @@ (20 :> "hat2x") @@ (21 :> "hat2y") @@
  (22 :> "hat3x") @@ (23 :> "hat3y") @@ (24 :> "pressure") @@
  (25 :> "distance") @@ (26 :> "tilt_x") @@ (27 :> "tilt_y") @@
  (28 :> "tool_width") @@ (32 :> "volume") @@ (40 :> "misc")

\* gamepad.py button_names (0x120 = 288, 0x130 = 304, 0x220 = 544, 0x2c0 = 704)
button_names ==
  (288 :> "trigger") @@ (289 :> "thumb") @@ (290 :> "thumb2") @@
  (291 :> "top") @@ (292 :> "top2") @@ (293 :> "pinkie") @@ (294 :> "base") @@
  (295 :> "base2") @@ (296 :> "base3") @@ (297 :> "base4") @@
  (298 :> "base5") @@ (299 :> "base6") @@ (303 :> "dead") @@ (304 :> "a") @@
  (305 :> "b") @@ (306 :> "c") @@ (307 :> "x") @@ (308 :> "y") @@
  (309 :> "z") @@ (310 :> "tl") @@ (311 :> "tr") @@ (312 :> "tl2") @@
  (313 :> "tr2") @@ (314 :> "select") @@ (315 :> "start") @@ (316 :> "mode") @@
  (317 :> "thumbl") @@ (318 :> "thumbr") @@
  (544 :> "dpad_up") @@ (545 :> "dpad_down") @@ (546 :> "dpad_left") @@
  (547 :> "dpad_right") @@
  (704 :> "dpad_left") @@ (705 :> "dpad_right") @@ (706 :> "dpad_up") @@
  (707 :> "dpad_down")

\* gamepad.py common_names: canonical name -> common name (partial)
common_names ==
  ("trigger" :> "btn1") @@ ("thumb" :> "btn2") @@ ("thumb2" :> "btn3") @@
  ("top" :> "btn4") @@ ("base5" :> "btn11") @@ ("base6" :> "btn12") @@
  ("base" :> "l1") @@ ("top2" :> "l2") @@ ("base2" :> "r1") @@
  ("pinkie" :> "r2") @@ ("base3" :> "select") @@ ("base4" :> "start") @@
  ("dpad_left" :> "dpad_left") @@ ("dpad_up" :> "dpad_up") @@
  ("dpad_right" :> "dpad_right") @@ ("dpad_down" :> "dpad_down") @@
  ("hat0x" :> "dpadx") @@ ("hat0y" :> "dpady") @@ ("x" :> "lx") @@
  ("y" :> "ly") @@ ("rz" :> "rx") @@ ("z" :> "ry")

\* gamepad.py device_name_keywords, as sequences of characters
device_name_keywords == <<
  <<"g","a","m","e">>,
  <<"g","a","m","i","n","g">>,
  <<"g","a","m","e","p","a","d">>,
  <<"c","o","n","t","r","o","l","l","e","r">>,
  <<"j","o","y","s","t","i","c","k">> >>

\* ------------------------------------------------------- string helpers
\* str.lower() on the characters device names are made of
UpperToLower ==
  ("A" :> "a") @@ ("C" :> "c") @@ ("D" :> "d") @@ ("E" :> "e") @@ ("G" :> "g") @@
  ("I" :> "i") @@ ("J" :> "j") @@ ("K" :> "k") @@ ("M" :> "m") @@ ("O" :> "o") @@
  ("P" :> "p") @@ ("S" :> "s") @@ ("T" :> "t") @@ ("U" :> "u") @@ ("Y" :> "y")

Lower(s) ==
  [i \in 1..Len(s) |-> IF s[i] \in DOMAIN UpperToLower THEN UpperToLower[s[i]] ELSE s[i]]

\* Python's `kw in s` on strings
Contains(s, kw) ==
  \E i \in 0..(Len(s) - Len(kw)) : SubSeq(s, i + 1, i + Len(kw)) = kw

HexDigit ==
  <<"0","1","2","3","4","5","6","7","8","9","a","b","c","d","e","f">>

\* 'unknown(0x%02x)' % axis
UnknownAxis(code) ==
  "unknown(0x" \o HexDigit[((code \div 16) % 16) + 1] \o HexDigit[(code % 16) + 1] \o ")"

\* 'unknown(0x%03x)' % button
UnknownButton(code) ==
  "unknown(0x" \o HexDigit[((code \div 256) % 16) + 1]
               \o HexDigit[((code \div 16) % 16) + 1]
               \o HexDigit[(code % 16) + 1] \o ")"

\* axis_names.get(axis, 'unknown(0x%02x)' % axis)
AxisName(code) ==
  IF code \in DOMAIN axis_names THEN axis_names[code] ELSE UnknownAxis(code)

\* button_names.get(button, 'unknown(0x%03x)' % button)
ButtonName(code) ==
  IF code \in DOMAIN button_names THEN button_names[code] ELSE UnknownButton(code)

\* x & y on naturals
RECURSIVE BitAnd(_, _)
BitAnd(x, y) ==
  IF x = 0 \/ y = 0 THEN 0
  ELSE (IF x % 2 = 1 /\ y % 2 = 1 THEN 1 ELSE 0) + 2 * BitAnd(x \div 2, y \div 2)

\* ------------------------------------------------------ python dict model
\* A dict is the sequence of its <<key, value>> pairs in insertion order.
DictHas(d, k) == \E i \in 1..Len(d) : d[i][1] = k

DictGet(d, k) == d[CHOOSE i \in 1..Len(d) : d[i][1] = k][2]

DictSet(d, k, v) ==
  IF DictHas(d, k)
  THEN [i \in 1..Len(d) |-> IF d[i][1] = k THEN <<k, v>> ELSE d[i]]
  ELSE Append(d, <<k, v>>)

\* ------------------------------------------------------------ environment
Paths == {"js0", "js1"}

\* What the driver reports for each kind of device that can be present:
\* the 64-byte name, the button code map and the axis code map (their lengths
\* are the counts JSIOCGBUTTONS / JSIOCGAXES report), and whether open() on
\* its path succeeds ("locked" is a node the process has no permission for).
Profiles ==
  ("pad" :> [name |-> <<"U","S","B"," ","G","a","m","e","p","a","d">>,
             buttons |-> <<288, 304>>, axes |-> <<0, 3>>, openable |-> TRUE]) @@
  ("joy" :> [name |-> <<"J","O","Y","S","T","I","C","K">>,
             buttons |-> <<289>>, axes |-> <<1>>, openable |-> TRUE]) @@
  ("kbd" :> [name |-> <<"K","e","y","s">>,
             buttons |-> <<256>>, axes |-> <<>>, openable |-> TRUE]) @@
  ("locked" :> [name |-> <<"G","a","m","e">>,
                buttons |-> <<288>>, axes |-> <<0>>, openable |-> FALSE])

ProfileIds == DOMAIN Profiles

\* the kinds of device that come and go while the lifecycle is explored
PlugKinds == {"pad", "joy", "kbd"}

\* records the driver can deliver: (value: int16, type: uint8, number: uint8)
Values == {-32768, 0, 1}
Types == {1, 2, 3, 128, 129, 130}
Numbers == {0, 1, 2}
Records == [value : Values, type : Types, number : Numbers]

\* the records delivered while the connection lifecycle is explored
LifeRecords == {[value |-> 1, type |-> 1, number |-> 0]}

\* event names the foreground registers handlers for
LifeEvents == {"connect", "disconnect"}
InputEvents == {"btn1", "btn1:changed", "btn1:pressed", "btn1:released"}

\* the axis records delivered while the axis values are explored: both ends of
\* the int16 range, values next to them and in between, live and initial
AxisValues == {-32768, -32767, 0, 16384, 32767}
AxisRecords == [value : AxisValues, type : {2, 130}, number : {0, 1}]
AxisEventNames == {"lx"}

VARIABLES
  dev,            \* environment: /dev/input path -> profile id, or None
  fileDead,       \* environment: I/O on the installed handle now fails
  plugs,          \* environment: devices plugged in so far
  device,         \* self._device
  file,           \* self._file: None or the handle [path, prof]
  name,           \* self._name
  handlers,       \* self._handlers: the registered event names, in order
  connected,      \* self._connected
  axis_map,       \* self._axis_map
  axis_states,    \* self._axis_states
  button_map,     \* self._button_map
  button_states,  \* self._button_states
  pc,             \* position of the worker thread
  todo,           \* candidates left in the pass of _update_connection
  lastRec,        \* observation: the record the latest step decoded, or None
  calls,          \* observation: handler invocations of the latest step
  configured,     \* observation: the constructor's device argument
  lossSeen,       \* observation: a read failed on the installed handle
  lossDisc,       \* observation: rounds of disconnect invocations made for
                  \*   read failures of the installed handle: 0, 1, or 2 for
                  \*   "more than one"
  negotiated,     \* observation: _on_connect ran to its end on the installed handle
  connFired,      \* observation: a connect handler has been invoked
  onlyPlain,      \* observation: no keyword-named device was ever present
  pass,           \* observation: the current pass of _update_connection
  lastLife,       \* observation: the lifecycle event dispatched last, or "none"
  stray           \* runtime: a file object nothing refers to any more, that
                  \*   was never closed, is still open

envVars == <<dev, fileDead, plugs>>
tableVars == <<axis_map, axis_states, button_map, button_states>>
vars == <<dev, fileDead, plugs, device, file, name, handlers, connected,
          axis_map, axis_states, button_map, button_states, pc, todo,
          lastRec, calls, configured, lossSeen, lossDisc, negotiated, connFired,
          onlyPlain, pass, lastLife, stray>>


\* ------------------------------------------------------------- dispatch
\* indexes i..Len(hs) of the registrations whose event is in evs, in list order
RECURSIVE Matching(_, _, _)
Matching(hs, evs, i) ==
  IF i > Len(hs) THEN <<>>
  ELSE (IF hs[i] \in evs THEN <<i>> ELSE <<>>) \o Matching(hs, evs, i + 1)

\* the dispatch walk taken from the newest registration to the oldest
InvokeNewestFirst(hs, evs, value) ==
  LET m == Matching(hs, evs, 1)
  IN  [j \in 1..Len(m) |-> [h |-> m[Len(m) + 1 - j], event |-> hs[m[Len(m) + 1 - j]],
                            value |-> value]]

\* `for h in self._handlers: if h.event ...: h(value, h.event)`:
\* one invocation per matching registration, in registration order
Invoke(hs, evs, value) ==
  LET m == Matching(hs, evs, 1)
  IN  [j \in 1..Len(m) |-> [h |-> m[j], event |-> hs[m[j]], value |-> value]]

\* events _handle_button_event compares h.event with
PressedEvents(cn) == {cn, cn \o ":pressed"}

\* event _handle_button_released_event compares h.event with
ReleasedEvents(cn) == {cn \o ":released"}

\* event _handle_button_changed_event compares h.event with
ChangedEvents(cn) == {cn \o ":changed"}

\* event _handle_axis_event compares h.event with
AxisEvents(cn) == {cn}

\* A _handle_*_event call on canonical name k: common_names[k] is evaluated once
\* per registration, so it raises KeyError only when a handler is registered.
EventsOf(kind, cn) ==
  CASE kind = "pressed" -> PressedEvents(cn)
    [] kind = "released" -> ReleasedEvents(cn)
    [] kind = "changed" -> ChangedEvents(cn)
    [] kind = "axis" -> AxisEvents(cn)

HandleEvent(hs, k, kind, value) ==
  IF hs = <<>> THEN [err |-> None, calls |-> <<>>]
  ELSE IF k \notin DOMAIN common_names THEN [err |-> "KeyError", calls |-> <<>>]
  ELSE [err |-> None, calls |-> Invoke(hs, EventsOf(kind, common_names[k]), value)]

_handle_button_event(hs, button, value) == HandleEvent(hs, button, "pressed", value)

\* the released dispatcher matching what the pressed dispatcher matches
ReleasedAsPressed(hs, button, value) == HandleEvent(hs, button, "pressed", value)

_handle_button_released_event(hs, button, value) ==
  HandleEvent(hs, button, "released", value)

_handle_button_changed_event(hs, button, value) ==
  HandleEvent(hs, button, "changed", value)

_handle_axis_event(hs, axis, value) == HandleEvent(hs, axis, "axis", value)

\* for handler in self._handlers: if handler.event == "connect": handler()
NotifyConnect(hs) == Invoke(hs, {"connect"}, NoArg)

\* _on_disconnect
_on_disconnect(hs) == Invoke(hs, {"disconnect"}, NoArg)

\* --------------------------------------------------------------- decoder
\* the initial-reading test as an equality (`if event_type == 0x80`)
IsInitialExact(t) == t = 128

\* `if event_type & 0x80: return`
IsInitial(t) == BitAnd(t, 128) # 0

\* `if event_type & 0x81:` (reached only with bit 0x80 clear)
IsButton(t) == BitAnd(t, 129) # 0

\* `if event_type & 0x02:`
IsAxis(t) == BitAnd(t, 2) # 0

\* the quotient held within [-1.0, 1.0]
FloatClamped(value) ==
  [kind |-> "float",
   num |-> IF value < -32767 THEN -32767 ELSE IF value > 32767 THEN 32767 ELSE value,
   den |-> 32767]

\* value / 32767.0, kept as the exact quotient
Float(value) == [kind |-> "float", num |-> value, den |-> 32767]

\* the float 0.0 the axis states start from
Zero == [kind |-> "float", num |-> 0, den |-> 1]

\* the button branch with the changed handlers run after the others
DecodeButtonChangedLast(hs, bmap, bs, value, number) ==
  IF number >= Len(bmap)
  THEN [err |-> "IndexError", states |-> bs, calls |-> <<>>]
  ELSE LET button == bmap[number + 1]
           bs1 == DictSet(bs, button, value # 0)
           nx == IF value # 0
                 THEN HandleEvent(hs, button, "pressed", IntVal(value))
                 ELSE HandleEvent(hs, button, "released", IntVal(value))
           ch == HandleEvent(hs, button, "changed", IntVal(value))
       IN  IF nx.err # None
           THEN [err |-> nx.err, states |-> bs1, calls |-> nx.calls]
           ELSE [err |-> ch.err, states |-> bs1, calls |-> nx.calls \o ch.calls]

\* The button branch of _read_device. A button name is a non-empty string, so
\* `if button:` always holds; an index past the map raises IndexError.
DecodeButton(hs, bmap, bs, value, number) ==
  IF number >= Len(bmap)
  THEN [err |-> "IndexError", states |-> bs, calls |-> <<>>]
  ELSE LET button == bmap[number + 1]
           bs1 == DictSet(bs, button, value # 0)
           ch == _handle_button_changed_event(hs, button, IntVal(value))
           nx == IF value # 0
                 THEN _handle_button_event(hs, button, IntVal(value))
                 ELSE _handle_button_released_event(hs, button, IntVal(value))
       IN  IF ch.err # None
           THEN [err |-> ch.err, states |-> bs1, calls |-> ch.calls]
           ELSE [err |-> nx.err, states |-> bs1, calls |-> ch.calls \o nx.calls]

\* The axis branch of _read_device.
DecodeAxis(hs, amap, as, value, number) ==
  IF number >= Len(amap)
  THEN [err |-> "IndexError", states |-> as, calls |-> <<>>]
  ELSE LET axis == amap[number + 1]
           fvalue == Float(value)
           r == _handle_axis_event(hs, axis, fvalue)
       IN  [err |-> r.err, states |-> DictSet(as, axis, fvalue), calls |-> r.calls]

\* _read_device on a record that was read whole: the exception it ends with
\* (None when it returns), the state tables and the invocations it made.
Decode(hs, bmap, bs, amap, as, value, type, number) ==
  IF IsInitial(type)
  THEN [err |-> None, bstates |-> bs, astates |-> as, calls |-> <<>>]
  ELSE LET b == IF IsButton(type)
                THEN DecodeButton(hs, bmap, bs, value, number)
                ELSE [err |-> None, states |-> bs, calls |-> <<>>]
           a == IF b.err = None /\ IsAxis(type)
                THEN DecodeAxis(hs, amap, as, value, number)
                ELSE [err |-> None, states |-> as, calls |-> <<>>]
       IN  [err |-> IF b.err # None THEN b.err ELSE a.err,
            bstates |-> b.states, astates |-> a.states,
            calls |-> b.calls \o a.calls]

\* ------------------------------------------------------------- accessors
\* Gamepad.button / Gamepad.axis: scan the state dict in insertion order and
\* return the value of the first key whose common name is the one asked for:
\* [kind, value] with kind "value", "KeyError" when an unmapped key is met
\* first, or "None" when the scan ends (the value field is then a filler).
RECURSIVE Scan(_, _, _, _)
Scan(d, cn, i, filler) ==
  IF i > Len(d) THEN [kind |-> "None", value |-> filler]
  ELSE IF d[i][1] \notin DOMAIN common_names THEN [kind |-> "KeyError", value |-> filler]
  ELSE IF common_names[d[i][1]] = cn THEN [kind |-> "value", value |-> d[i][2]]
  ELSE Scan(d, cn, i + 1, filler)

button(cn) ==
  IF connected THEN Scan(button_states, cn, 1, FALSE)
  ELSE [kind |-> "value", value |-> FALSE]

axis(cn) ==
  IF connected THEN Scan(axis_states, cn, 1, Zero)
  ELSE [kind |-> "value", value |-> Zero]


\* ------------------------------------------------------- connection steps
\* os.path.exists(path)
Exists(p) == dev[p] # None

\* _open_device: open(device, "rb") returns a handle (else it raises IOError)
CanOpen(p) == Exists(p) /\ Profiles[dev[p]].openable

\* _get_device_list: the js* entries of /dev/input, in the order the OS lists them
Orderings(S) ==
  {s \in [1..Cardinality(S) -> S] : \A i, j \in 1..Cardinality(S) : i # j => s[i] # s[j]}

_get_device_list == Orderings({p \in Paths : Exists(p)})

\* _get_name: what the name ioctl reports for the opened device
_get_name(prof) == Profiles[prof].name

\* a filter that lets every named device through (`if kw or name.lower()`)
KeywordMatchAny(nm) ==
  \E i \in 1..Len(device_name_keywords) :
    Len(device_name_keywords[i]) > 0 \/ Len(Lower(nm)) > 0

\* `for kw in device_name_keywords: if kw in name.lower()`
KeywordMatch(nm) ==
  \E i \in 1..Len(device_name_keywords) : Contains(Lower(nm), device_name_keywords[i])

\* the guard of _update_connection: the connection is taken to be in place
ConnectionValid == device # None /\ Exists(device) /\ connected

\* where the worker goes when a _connect_to_device call returns
AfterConnect(rest, conn) ==
  IF rest # <<>> THEN "connect" ELSE IF conn THEN "read" ELSE "update"

\* _init_button_map: the names appended to the map, in driver order
ButtonNames(prof) ==
  [i \in 1..Len(Profiles[prof].buttons) |-> ButtonName(Profiles[prof].buttons[i])]

\* _init_axis_map: the names appended to the map, in driver order
AxisNamesOf(prof) ==
  [i \in 1..Len(Profiles[prof].axes) |-> AxisName(Profiles[prof].axes[i])]

\* self._button_map after _init_button_map
NewButtonMap(old, prof) == old \o ButtonNames(prof)

\* self._axis_map after _init_axis_map
NewAxisMap(old, prof) == old \o AxisNamesOf(prof)

\* `states[name] = v` for every name of ns, in order
RECURSIVE SetAll(_, _, _)
SetAll(d, ns, v) ==
  IF ns = <<>> THEN d ELSE SetAll(DictSet(d, Head(ns), v), Tail(ns), v)

NoPass == [auto |-> FALSE, first |-> None, accepted |-> 0, notified |-> 0, last |-> "none"]

Min(a, b) == IF a < b THEN a ELSE b

\* a device name that holds one of the five keywords, whatever its case
NamedAsGamepad(prof) ==
  \E kw \in {device_name_keywords[i] : i \in 1..Len(device_name_keywords)} :
    Contains(Lower(Profiles[prof].name), kw)

\* the state after Gamepad.__init__, with any devices in place
Start ==
  /\ dev \in [Paths -> ProfileIds \cup {None}]
  /\ fileDead = FALSE
  /\ plugs = Cardinality({p \in Paths : dev[p] # None})
  /\ plugs <= MaxPlugs
  /\ device \in Paths \cup {None}
  /\ configured = device
  /\ file = NoFile
  /\ name = <<>>
  /\ handlers = <<>>
  /\ connected = FALSE
  /\ axis_map = <<>>
  /\ axis_states = <<>>
  /\ button_map = <<>>
  /\ button_states = <<>>
  /\ pc = "update"
  /\ todo = <<>>
  /\ lastRec = NoRec
  /\ calls = <<>>
  /\ lossSeen = FALSE
  /\ lossDisc = 0
  /\ negotiated = FALSE
  /\ connFired = FALSE
  /\ onlyPlain = (\A p \in Paths : dev[p] = None \/ ~NamedAsGamepad(dev[p]))
  /\ pass = NoPass
  /\ lastLife = "none"
  /\ stray = FALSE

\* ... with devices of the kinds that come and go
Init == Start /\ \A p \in Paths : dev[p] \in PlugKinds \cup {None}

\* _update_connection up to its first _connect_to_device call
UpdateConnection ==
  /\ pc = "update"
  /\ lastRec' = NoRec
  /\ calls' = <<>>
  /\ IF ConnectionValid
     THEN /\ pc' = "read"
          /\ pass' = NoPass
          /\ UNCHANGED <<connected, todo>>
     ELSE /\ connected' = FALSE
          /\ \E order \in _get_device_list :
               todo' = IF device # None THEN <<device>> ELSE order
          /\ pc' = IF todo' = <<>> THEN "update" ELSE "connect"
          /\ pass' = [NoPass EXCEPT !.auto = (device = None)]
  /\ UNCHANGED <<envVars, tableVars, device, file, name, handlers, configured,
                 lossSeen, lossDisc, negotiated, connFired, onlyPlain>>
  /\ UNCHANGED <<lastLife, stray>>

\* one _connect_to_device call, up to _on_connect
ConnectToDevice ==
  /\ pc = "connect"
  /\ lastRec' = NoRec
  /\ calls' = <<>>
  /\ LET p == Head(todo) IN
     IF ~CanOpen(p)
     THEN \* open() raises IOError
          /\ pc' = "except"
          /\ todo' = <<>>
          /\ pass' = [pass EXCEPT !.last = "openfail"]
          /\ UNCHANGED stray
          /\ UNCHANGED <<device, file, connected, fileDead, lossSeen, lossDisc, negotiated>>
     ELSE IF KeywordMatch(_get_name(dev[p]))
     THEN /\ device' = p
          /\ file' = [path |-> p, prof |-> dev[p]]
          /\ connected' = TRUE
          /\ fileDead' = FALSE
          /\ lossSeen' = FALSE
          /\ lossDisc' = 0
          /\ negotiated' = FALSE
          \* the handle installed before is dropped without close(): the
          \* runtime closes it at once or leaves it open for now
          /\ stray' \in {stray, stray \/ file # NoFile}
          /\ pc' = "init_button_map"
          /\ todo' = Tail(todo)
          /\ pass' = [pass EXCEPT !.last = "accepted",
                                  !.accepted = @ + 1,
                                  !.first = IF @ = None THEN p ELSE @]
     ELSE \* the function returns; the local _file is dropped without
          \* close(): the runtime closes it at once or leaves it open for now
          /\ todo' = Tail(todo)
          /\ stray' \in {stray, TRUE}
          /\ pc' = AfterConnect(Tail(todo), connected)
          /\ pass' = [pass EXCEPT !.last = "rejected",
                                  !.first = IF @ = None /\ NamedAsGamepad(dev[p])
                                            THEN p ELSE @]
          /\ UNCHANGED <<device, file, connected, fileDead, lossSeen, lossDisc, negotiated>>
  /\ UNCHANGED <<dev, plugs, tableVars, name, handlers, configured, connFired,
                 onlyPlain>>
  /\ UNCHANGED lastLife

\* _on_connect, first line: _init_button_map(self._file)
InitButtonMap ==
  /\ pc = "init_button_map"
  /\ lastRec' = NoRec
  /\ calls' = <<>>
  /\ IF fileDead
     THEN \* the ioctl raises IOError
          /\ pc' = "except"
          /\ todo' = <<>>
          /\ UNCHANGED <<button_map, button_states>>
     ELSE /\ button_map' = NewButtonMap(button_map, file.prof)
          /\ button_states' = SetAll(button_states, ButtonNames(file.prof), FALSE)
          /\ pc' = "init_axis_map"
          /\ UNCHANGED todo
  /\ UNCHANGED <<envVars, device, file, name, handlers, connected, axis_map,
                 axis_states, configured, lossSeen, lossDisc, negotiated, connFired,
                 onlyPlain, pass>>
  /\ UNCHANGED <<lastLife, stray>>

\* _on_connect, second line: _init_axis_map(self._file)
InitAxisMap ==
  /\ pc = "init_axis_map"
  /\ lastRec' = NoRec
  /\ calls' = <<>>
  /\ IF fileDead
     THEN /\ pc' = "except"
          /\ todo' = <<>>
          /\ UNCHANGED <<axis_map, axis_states>>
     ELSE /\ axis_map' = NewAxisMap(axis_map, file.prof)
          /\ axis_states' = SetAll(axis_states, AxisNamesOf(file.prof), Zero)
          /\ pc' = "notify"
          /\ UNCHANGED todo
  /\ UNCHANGED <<envVars, device, file, name, handlers, connected, button_map,
                 button_states, configured, lossSeen, lossDisc, negotiated, connFired,
                 onlyPlain, pass>>
  /\ UNCHANGED <<lastLife, stray>>

\* _on_connect, the rest: re-read the name and invoke the connect handlers
Notify ==
  /\ pc = "notify"
  /\ lastRec' = NoRec
  /\ IF fileDead
     THEN /\ pc' = "except"
          /\ todo' = <<>>
          /\ calls' = <<>>
          /\ UNCHANGED <<name, connFired, pass, negotiated>>
     ELSE /\ name' = _get_name(file.prof)
          /\ calls' = NotifyConnect(handlers)
          /\ connFired' = (connFired \/ calls' # <<>>)
          /\ negotiated' = TRUE
          /\ pass' = [pass EXCEPT !.notified = @ + 1]
          /\ pc' = AfterConnect(todo, connected)
          /\ UNCHANGED todo
  /\ UNCHANGED <<envVars, tableVars, device, file, handlers, connected,
                 configured, lossSeen, lossDisc, onlyPlain>>
  /\ lastLife' = IF fileDead THEN lastLife ELSE "connect"
  /\ UNCHANGED stray

\* `if self._connected: self._read_device()`
ReadDevice(Recs) ==
  /\ pc = "read"
  /\ IF fileDead
     THEN \* self._file.read(8) raises IOError
          /\ pc' = "except"
          /\ lossSeen' = TRUE
          /\ lastRec' = NoRec
          /\ calls' = <<>>
          /\ UNCHANGED <<button_states, axis_states>>
     ELSE \E rec \in Recs :
            LET v == rec.value
                t == rec.type
                n == rec.number
                r == Decode(handlers, button_map, button_states, axis_map,
                            axis_states, v, t, n)
            IN  /\ button_states' = r.bstates
                /\ axis_states' = r.astates
                /\ calls' = r.calls
                /\ pc' = IF r.err = None THEN "update" ELSE "dead"
                /\ lastRec' = [value |-> v, type |-> t, number |-> n, err |-> r.err,
                               read |-> TRUE,
                               pressed |-> /\ n < Len(button_map)
                                           /\ DictHas(button_states, button_map[n + 1])
                                           /\ DictGet(button_states, button_map[n + 1])]
                /\ UNCHANGED lossSeen
  /\ UNCHANGED <<envVars, device, file, name, handlers, connected, axis_map,
                 button_map, todo, configured, lossDisc, negotiated, connFired, onlyPlain,
                 pass>>
  /\ UNCHANGED <<lastLife, stray>>

\* `except IOError: if self.connected: self._on_disconnect()`
Except ==
  /\ pc = "except"
  /\ lastRec' = NoRec
  /\ calls' = IF connected THEN _on_disconnect(handlers) ELSE <<>>
  /\ lossDisc' = IF lossSeen /\ calls' # <<>> THEN Min(lossDisc + 1, 2) ELSE lossDisc
  /\ pc' = "update"
  /\ UNCHANGED <<envVars, tableVars, device, file, name, handlers, connected,
                 todo, configured, lossSeen, negotiated, connFired, onlyPlain, pass>>
  /\ lastLife' = IF connected THEN "disconnect" ELSE lastLife
  /\ UNCHANGED stray

\* ------------------------------------------------------------- foreground
\* Gamepad.on(event, handler)
On(e, limit) ==
  /\ Len(handlers) < limit
  /\ handlers' = Append(handlers, e)
  /\ lastRec' = NoRec
  /\ calls' = <<>>
  /\ UNCHANGED <<envVars, tableVars, device, file, name, connected, pc, todo,
                 configured, lossSeen, lossDisc, negotiated, connFired, onlyPlain, pass>>
  /\ UNCHANGED <<lastLife, stray>>

\* ------------------------------------------------------------ environment
\* a device of kind k appears at path p
Plug(p, k) ==
  /\ dev[p] = None
  /\ plugs < MaxPlugs
  /\ dev' = [dev EXCEPT ![p] = k]
  /\ plugs' = plugs + 1
  /\ onlyPlain' = (onlyPlain /\ ~NamedAsGamepad(k))
  /\ UNCHANGED <<fileDead, device, file, name, handlers, connected, tableVars, pc,
                 todo, lastRec, calls, configured, lossSeen, lossDisc, negotiated, connFired,
                 pass>>
  /\ UNCHANGED <<lastLife, stray>>

\* the device at path p goes away; a handle open on it fails from now on
Unplug(p) ==
  /\ dev[p] # None
  /\ dev' = [dev EXCEPT ![p] = None]
  /\ fileDead' = (fileDead \/ (file.path = p))
  /\ UNCHANGED <<plugs, device, file, name, handlers, connected, tableVars, pc,
                 todo, lastRec, calls, configured, lossSeen, lossDisc, negotiated, connFired,
                 onlyPlain, pass>>
  /\ UNCHANGED <<lastLife, stray>>

\* I/O on the installed handle starts failing while its path stays in place.
\* The failure shows only at the worker's next read or ioctl, so it is taken
\* to happen right before one.
Fault ==
  /\ file # NoFile
  /\ ~fileDead
  /\ pc \in {"init_button_map", "init_axis_map", "notify", "read"}
  /\ fileDead' = TRUE
  /\ UNCHANGED <<dev, plugs, device, file, name, handlers, connected, tableVars,
                 pc, todo, lastRec, calls, configured, lossSeen, lossDisc, negotiated,
                 connFired, onlyPlain, pass>>
  /\ UNCHANGED <<lastLife, stray>>

\* The runtime finalizes the file objects nothing refers to, which closes
\* them. The code never calls close(), and when an unreferenced object is
\* finalized is up to the interpreter: at once, later, or never.
Finalize ==
  /\ stray
  /\ stray' = FALSE
  /\ UNCHANGED <<envVars, tableVars, device, file, name, handlers, connected, pc,
                 todo, lastRec, calls, configured, lossSeen, lossDisc, negotiated,
                 connFired, onlyPlain, pass, lastLife>>

Next ==
  \/ UpdateConnection
  \/ ConnectToDevice
  \/ InitButtonMap
  \/ InitAxisMap
  \/ Notify
  \/ ReadDevice(LifeRecords)
  \/ Except
  \/ \E e \in LifeEvents : On(e, MaxHandlers)
  \/ \E p \in Paths, k \in PlugKinds : Plug(p, k)
  \/ \E p \in Paths : Unplug(p)
  \/ Fault
  \/ Finalize

\* The connection lifecycle: any devices, plugged and unplugged at any time.
Spec == Init /\ [][Next]_vars

\* The decoder: gamepads in place from the start, every record, input handlers.
InitDecode ==
  /\ Init
  /\ dev = ("js0" :> "pad") @@ ("js1" :> None)
  /\ device = None

NextDecode ==
  \/ UpdateConnection
  \/ ConnectToDevice
  \/ InitButtonMap
  \/ InitAxisMap
  \/ Notify
  \/ ReadDevice(Records)
  \/ Except
  \/ \E e \in InputEvents : On(e, MaxInputHandlers)
  \/ Fault

SpecDecode == InitDecode /\ [][NextDecode]_vars

\* The axis branch: the same gamepad, axis records over the int16 range,
\* handlers for the axis event lx.
NextAxis ==
  \/ UpdateConnection
  \/ ConnectToDevice
  \/ InitButtonMap
  \/ InitAxisMap
  \/ Notify
  \/ ReadDevice(AxisRecords)
  \/ Except
  \/ \E e \in AxisEventNames : On(e, MaxAxisHandlers)
  \/ Fault

SpecAxis == InitDecode /\ [][NextAxis]_vars


\* The worker thread runs `while (1)`: whenever it can take a step it
\* eventually takes one.
WorkerStep ==
  \/ UpdateConnection
  \/ ConnectToDevice
  \/ InitButtonMap
  \/ InitAxisMap
  \/ Notify
  \/ ReadDevice(LifeRecords)
  \/ Except

SpecFair == Init /\ [][Next]_vars /\ WF_vars(WorkerStep)

\* Auto-detection with a node that cannot be opened next to a gamepad, both
\* in place for good; the worker is scheduled fairly.
InitOpen ==
  /\ Start
  /\ dev = ("js0" :> "locked") @@ ("js1" :> "pad")
  /\ device = None

NextOpen ==
  \/ UpdateConnection
  \/ ConnectToDevice
  \/ InitButtonMap
  \/ InitAxisMap
  \/ Notify
  \/ ReadDevice(LifeRecords)
  \/ Except
  \/ \E e \in LifeEvents : On(e, MaxHandlers)
  \/ Fault

SpecOpen == InitOpen /\ [][NextOpen]_vars /\ WF_vars(WorkerStep)

\* ================================================================= claims

\* C1: after a read failure while Connected the disconnect handlers are
\* invoked once for that loss, with no further disconnect round in later
\* iterations until a new connect, whether or not the path still exists.
C1_DisconnectOncePerLoss == (lossSeen /\ negotiated) => lossDisc <= 1

\* C2: once the worker has handled a read failure (it is past the except
\* clause) the connection state is Disconnected: connected is false and the
\* failed handle is not read again.
C2_DisconnectedAfterLoss ==
  (lossSeen /\ negotiated /\ pc # "except") => (~connected /\ pc # "read")

\* the device the worker would reconnect to is in place with a keyword name
DeviceOpenable ==
  device # None /\ CanOpen(device) /\ NamedAsGamepad(dev[device])

\* C3: if a read fails while Connected and from then on the device stays
\* openable with a keyword name, the worker eventually opens it again and is
\* Connected on a new handle (a loss leads to a new accept unless the device
\* stops being openable).
C3_ReconnectsAfterLoss ==
  (lossSeen /\ negotiated) ~> (~DeviceOpenable \/ ~lossSeen)

\* C4: after every successful connect the axis map is as long as the axis
\* count of the connected device and the button map as long as its button
\* count.
C4_MapsMatchCounts ==
  negotiated =>
    /\ Len(axis_map) = Len(Profiles[file.prof].axes)
    /\ Len(button_map) = Len(Profiles[file.prof].buttons)

C6_ConfiguredPathBypassesFilter ==
  (configured # None /\ pass.last \in {"accepted", "rejected"}) => connected

\* C7: an auto-detection pass over candidates with keyword names accepts the
\* first of them in enumeration order: after the pass the installed device and
\* handle are that first match, negotiation ran once and connect fired once.
C7_FirstMatchAccepted ==
  (pc = "read" /\ pass.auto /\ pass.first # None) =>
    /\ device = pass.first
    /\ file.path = pass.first
    /\ pass.accepted = 1
    /\ pass.notified = 1


\* ------------------------------------------- the record of the latest step
\* the latest step decoded a record with the button bit and not the initial bit
RecIsButton == lastRec.read /\ lastRec.type % 2 = 1 /\ lastRec.type < 128

\* ... whose index is within the button map
RecInRange == lastRec.number < Len(button_map)

\* the canonical name the index maps to
RecKey == button_map[lastRec.number + 1]

\* ... and its canonical name has a common name
RecMapped == RecKey \in DOMAIN common_names

\* the common name N of the record's button
RecN == common_names[RecKey]

\* a button record on a mapped button that was decoded to the end
ButtonCase == RecIsButton /\ RecInRange /\ RecMapped

\* the registrations for event ev, and how often registration h was invoked
RegsOf(ev) == {h \in 1..Len(handlers) : handlers[h] = ev}
TimesInvoked(h) == Cardinality({i \in 1..Len(calls) : calls[i].h = h})
InvokedOnce(ev) == \A h \in RegsOf(ev) : TimesInvoked(h) = 1
NotInvoked(ev) == \A i \in 1..Len(calls) : calls[i].event # ev

\* every invocation carries the event name it was registered for
CallsWellFormed ==
  \A i \in 1..Len(calls) :
    calls[i].h \in 1..Len(handlers) /\ calls[i].event = handlers[calls[i].h]

\* position of an event in the order N, N:changed, N:pressed
RankNamed(ev, n) ==
  IF ev = n THEN 1 ELSE IF ev = n \o ":changed" THEN 2 ELSE 3

\* every key before k in the button state table has a common name
NoUnmappedBefore(k) ==
  \A i \in 1..Len(button_states) :
    (\E j \in i..Len(button_states) : button_states[j][1] = k /\ j > i)
      => button_states[i][1] \in DOMAIN common_names

C9_ReleaseDispatch ==
  (ButtonCase /\ lastRec.value = 0 /\ lastRec.pressed) =>
    /\ \A h \in RegsOf(RecN \o ":released") \cup RegsOf(RecN \o ":changed") :
         TimesInvoked(h) = 1
    /\ \A h \in RegsOf(RecN \o ":pressed") : TimesInvoked(h) = 0

\* C9 witness: a release after a press, with a handler of each of the three events
C9_Witness ==
  /\ ButtonCase
  /\ lastRec.value = 0
  /\ lastRec.pressed
  /\ handlers = <<"btn1:pressed", "btn1:released", "btn1:changed">>

\* C10: a record with bit 0x80 of its type set leaves both state tables as
\* they were and invokes no handler, whatever its value and index.
C10_InitialRecordIgnored ==
  [][(lastRec'.read /\ lastRec'.type >= 128) =>
       /\ button_states' = button_states
       /\ axis_states' = axis_states
       /\ calls' = <<>>
       /\ lastRec'.err = None
       /\ pc' = "update"]_vars

\* C10 witness: such a record, its index past both maps, read with a handler
\* registered and a button held down
C10_Witness ==
  /\ lastRec.read
  /\ lastRec.type = 129
  /\ lastRec.number >= Len(button_map)
  /\ lastRec.number >= Len(axis_map)
  /\ lastRec.value # 0
  /\ handlers # <<>>
  /\ \E i \in 1..Len(button_states) : button_states[i][2]


\* the event names a decoded button record on N is dispatched to
Dispatched ==
  {RecN \o ":changed"} \cup
    (IF lastRec.value # 0 THEN {RecN, RecN \o ":pressed"} ELSE {RecN \o ":released"})

\* C11: a registration is only ever added at the end of the list, never
\* replaced, merged or removed; a matching record invokes every registration
\* of a dispatched event once (a callable registered twice for E runs twice),
\* and the invocations made for one event name follow registration order.
C11_AppendOnlyInOrder ==
  [][/\ \/ handlers' = handlers
        \/ /\ Len(handlers') = Len(handlers) + 1
           /\ SubSeq(handlers', 1, Len(handlers)) = handlers
     /\ ButtonCase' =>
          /\ \A ev \in Dispatched' : \A h \in RegsOf(ev)' : TimesInvoked(h)' = 1
          /\ \A i, j \in 1..Len(calls') :
               (i < j /\ calls'[i].event = calls'[j].event)
                 => calls'[i].h < calls'[j].h]_vars

\* C11 witness: btn1:changed registered twice with btn1 between them; a press
\* runs the first, then the second changed registration, then btn1
C11_Witness ==
  /\ ButtonCase
  /\ lastRec.value # 0
  /\ handlers = <<"btn1:changed", "btn1", "btn1:changed">>
  /\ Len(calls) = 3
  /\ calls[1].h = 1
  /\ calls[2].h = 3
  /\ calls[3].h = 2

\* the latest step decoded a record with the axis bit and not the initial bit
RecIsAxis == lastRec.read /\ (lastRec.type \div 2) % 2 = 1 /\ lastRec.type < 128

\* the latest step decoded a record whose index is past the map of a branch
\* the decoder takes for it
RecOutOfRange ==
  \/ RecIsButton /\ lastRec.number >= Len(button_map)
  \/ RecIsAxis /\ lastRec.number >= Len(axis_map)

\* C12: a record whose index is past the current map is dropped: no handler
\* is invoked, the decoder ends without an error, the worker stays Connected
\* and goes on to its next iteration.
C12_OutOfRangeDropped ==
  RecOutOfRange =>
    /\ lastRec.err = None
    /\ calls = <<>>
    /\ connected
    /\ pc = "update"

\* the latest step decoded a record whose index is within the map and whose
\* canonical name has no common name
RecUnmapped ==
  \/ RecIsButton /\ RecInRange /\ ~RecMapped
  \/ /\ RecIsAxis
     /\ ~RecIsButton
     /\ lastRec.number < Len(axis_map)
     /\ axis_map[lastRec.number + 1] \notin DOMAIN common_names

\* C13: a record on a button or axis whose canonical name has no common name
\* does not end the worker, whatever the number of registered handlers.
C13_UnmappedNameHarmless ==
  RecUnmapped => (lastRec.err = None /\ pc # "dead")

\* C14: the worker never stops: whatever fails, there is no reachable state in
\* which the worker thread has ended.
C14_WorkerNeverStops == pc # "dead"

\* C15: whenever the foreground can see connected = true, the state tables
\* hold an entry for every button and axis of the device of the current
\* connection.
C15_NoTornRebuild ==
  connected =>
    /\ \A i \in 1..Len(ButtonNames(file.prof)) :
         DictHas(button_states, ButtonNames(file.prof)[i])
    /\ \A i \in 1..Len(AxisNamesOf(file.prof)) :
         DictHas(axis_states, AxisNamesOf(file.prof)[i])

\* C17: when a capability query fails during negotiation the attempt is
\* aborted: once the failure is handled the state is Disconnected (connected
\* is false) and no record is read with the partly built maps.
C17_NegotiationFailureAborts ==
  (file # NoFile /\ ~negotiated /\ pc \in {"update", "read", "connect"}) =>
    (~connected /\ pc # "read")

\* the latest step decoded an axis record on an axis that has a common name
AxisCase ==
  /\ RecIsAxis
  /\ ~RecIsButton
  /\ lastRec.number < Len(axis_map)
  /\ axis_map[lastRec.number + 1] \in DOMAIN common_names

\* the state entry of the record's axis
AxisStored == DictGet(axis_states, axis_map[lastRec.number + 1])

\* C16: for a record with raw value v on a mapped axis the stored value, and
\* the value handed to every handler of the axis, is the quotient v / 32767
\* with no clamping: below -1.0 for v = -32768, exactly 1.0 for v = 32767.
C16_AxisValueUnclamped ==
  AxisCase =>
    /\ AxisStored.kind = "float"
    /\ AxisStored.den > 0
    /\ AxisStored.num * 32767 = lastRec.value * AxisStored.den
    /\ lastRec.value = -32768 => AxisStored.num < -AxisStored.den
    /\ lastRec.value = 32767 => AxisStored.num = AxisStored.den
    /\ \A h \in RegsOf(common_names[axis_map[lastRec.number + 1]]) :
         TimesInvoked(h) = 1
    /\ \A i \in 1..Len(calls) : calls[i].value = AxisStored

\* C16 witness: the value -32768 arrives on lx with two lx handlers registered
C16_Witness ==
  /\ AxisCase
  /\ lastRec.value = -32768
  /\ handlers = <<"lx", "lx">>
  /\ Len(calls) = 2

\* auto-detection with a candidate that cannot be opened and another that can
\* be opened and has a keyword name
BlockedCandidate ==
  /\ configured = None
  /\ \E p \in Paths : Exists(p) /\ ~CanOpen(p)
  /\ \E q \in Paths : CanOpen(q) /\ NamedAsGamepad(dev[q])

\* C18: in auto-detection a candidate that can never be opened does not keep
\* the worker from the others: with an openable keyword-named candidate in
\* place, whatever the enumeration order, the worker is eventually Connected
\* to a candidate that can be opened.
C18_UnopenableDoesNotBlock ==
  BlockedCandidate ~> (connected /\ file # NoFile /\ CanOpen(file.path))

\* C19: the lifecycle dispatches alternate, starting with connect: connect is
\* never dispatched twice without a disconnect between, disconnect is never
\* dispatched twice without a connect between nor before the first connect.
C19_LifecycleAlternates ==
  [][/\ (pc = "notify" /\ pc' # "except") => lastLife # "connect"
     /\ (pc = "except" /\ connected) => lastLife = "connect"]_vars

\* the handles that are open: the installed one and those left to the runtime
OpenHandles ==
  (IF file # NoFile THEN {"installed"} ELSE {}) \cup (IF stray THEN {"stray"} ELSE {})

\* C20: a handle opened for a candidate that is turned down is released by
\* the time the connect attempt returns: at every point the open handles are
\* at most the one installed handle.
C20_NoHandleLeak == OpenHandles \subseteq {"installed"}

====
